---- MODULE Spec2Model ----
(***************************************************************************)
(* GPdoemd: GPModel (models/gp_model.py) and GPMarginal                    *)
(* (marginal/gp_marginal.py).                                              *)
(*                                                                         *)
(* Numbers are exact rationals <<n, d>> extended with the IEEE special     *)
(* values numpy produces on division by zero: <<1,0>> = +inf,              *)
(* <<-1,0>> = -inf, <<0,0>> = NaN.  Rounding is not modelled.              *)
(* Arrays are sequences of rows; a 1-D vector of length n is a 1 x n       *)
(* array.  An attribute that may be None holds None or Some(value).        *)
(***************************************************************************)
EXTENDS Integers, Sequences, FiniteSets, TLC

VARIABLES _Z, _zmin, _zmax,        \* GPModel training inputs and box statistics
          _Y, _ymean, _ystd,       \* GPModel training targets and mean statistics
          _kern_x, _kern_p,        \* GPModel kernel classes
          _hyp, _gps,              \* GPModel hyperparameters and oracles [e][r]
          _gprm,                   \* GPModel marginal engine (a GPMarginal)
          pmean, meas_noise_var,   \* Model (base class) configuration
          iA,                      \* accumulator of the last compute_param_covar
          op, ret                  \* last call and what it returned

vars == <<_Z, _zmin, _zmax, _Y, _ymean, _ystd, _kern_x, _kern_p,
          _hyp, _gps, _gprm, pmean, meas_noise_var, iA, op, ret>>

modelState == <<_Z, _zmin, _zmax, _Y, _ymean, _ystd, _kern_x, _kern_p,
                _hyp, _gps, _gprm, pmean, meas_noise_var, iA>>

-----------------------------------------------------------------------------
(* Bounds of the model *)

\* continuous data values are drawn from 0..MaxVal
MaxVal == 1
\* oracle gradients d mu / d p are drawn from 0..MaxGrad
MaxGrad == 1
\* Xdata handed to compute_param_covar has 1..MaxRows rows
MaxRows == 2

-----------------------------------------------------------------------------
(* Configuration of the model instance (model_dict) *)

dim_x == 2
dim_p == 1
num_outputs == 2
\* python index 0, the first column
binary_variables == <<1>>

-----------------------------------------------------------------------------
(* None / Some *)

None == <<>>
Some(v) == <<v>>
Val(o) == o[1]

-----------------------------------------------------------------------------
(* Float arithmetic *)

Abs(n) == IF n < 0 THEN -n ELSE n
Sgn(n) == IF n < 0 THEN -1 ELSE IF n = 0 THEN 0 ELSE 1

RECURSIVE GCD(_, _)
GCD(a, b) == IF b = 0 THEN a ELSE GCD(b, a % b)

\* the float n/d
Q(n, d) ==
    IF d = 0 THEN <<Sgn(n), 0>>
    ELSE LET g == GCD(Abs(n), Abs(d))
         IN  <<Sgn(d) * (n \div g), Abs(d) \div g>>

R(n) == <<n, 1>>
NaN == <<0, 0>>
IsFinite(a) == a[2] # 0

Neg(a) == <<-a[1], a[2]>>
Add(a, b) ==
    IF a[2] = 0 /\ b[2] = 0
    THEN (IF a = b THEN a ELSE NaN)
    ELSE Q(a[1] * b[2] + b[1] * a[2], a[2] * b[2])
Sub(a, b) == Add(a, Neg(b))
Mul(a, b) == Q(a[1] * b[1], a[2] * b[2])
Recip(a) == Q(a[2], a[1])
Div(a, b) == Mul(a, Recip(b))
Less(a, b) == a[1] * b[2] < b[1] * a[2]

\* np.sqrt on the squares of rationals
ISqrt(k) == CHOOSE r \in 0..k : r * r = k
Sqrt(a) == <<ISqrt(a[1]), ISqrt(a[2])>>

-----------------------------------------------------------------------------
(* Arrays *)

\* the vector v and the array A as tuples, entries evaluated
Vec(v) == v \o <<>>
Arr(A) == [i \in DOMAIN A |-> A[i] \o <<>>] \o <<>>

Rows(X) == DOMAIN X
Cols(X) == IF X = <<>> THEN {} ELSE DOMAIN X[1]
NCols(X) == IF X = <<>> THEN 0 ELSE Len(X[1])
Column(X, j) ==
    Vec([i \in DOMAIN X |-> X[i][j]])

RECURSIVE SumSeq(_)
SumSeq(s) == IF s = <<>> THEN R(0) ELSE Add(s[1], SumSeq(Tail(s)))

RECURSIVE MinSeq(_)
MinSeq(s) ==
    IF Len(s) = 1 THEN s[1]
    ELSE LET m == MinSeq(Tail(s)) IN IF Less(s[1], m) THEN s[1] ELSE m

RECURSIVE MaxSeq(_)
MaxSeq(s) ==
    IF Len(s) = 1 THEN s[1]
    ELSE LET m == MaxSeq(Tail(s)) IN IF Less(m, s[1]) THEN s[1] ELSE m

np_min(X) ==
    Vec([j \in Cols(X) |-> MinSeq(Column(X, j))])
np_max(X) ==
    Vec([j \in Cols(X) |-> MaxSeq(Column(X, j))])
np_mean(X) ==
    Vec([j \in Cols(X) |-> Div(SumSeq(Column(X, j)), R(Len(X)))])
np_std(X) ==
    Vec(LET mu == np_mean(X)
        sq(j) == [i \in DOMAIN X |->
                    Mul(Sub(X[i][j], mu[j]), Sub(X[i][j], mu[j]))]
    IN  [j \in Cols(X) |-> Sqrt(Div(SumSeq(sq(j)), R(Len(X))))])

\* v[a..b] of a vector (1-based, inclusive)
Slice(v, a, b) ==
    Vec([j \in 1..(b - a + 1) |-> v[j + a - 1]])

-----------------------------------------------------------------------------
(* Variable, parameter and target transformations *)

box_trans(X, xmin, xmax, reverse) ==
    Arr([i \in Rows(X) |-> [j \in Cols(X) |->
        IF reverse
        THEN Add(xmin[j], Mul(X[i][j], Sub(xmax[j], xmin[j])))
        ELSE Div(Sub(X[i][j], xmin[j]), Sub(xmax[j], xmin[j]))]])

box_var_trans(X, xmin, xmax, reverse) ==
    Arr(LET m(j) == Sub(xmax[j], xmin[j])
    IN  [i \in Rows(X) |-> [j \in Cols(X) |->
            IF reverse
            THEN Mul(X[i][j], Mul(m(j), m(j)))
            ELSE Div(X[i][j], Mul(m(j), m(j)))]])

box_cov_trans(X, xmin, xmax, reverse) ==
    Arr(LET m(j) == Sub(xmax[j], xmin[j])
    IN  [i \in Rows(X) |-> [j \in Cols(X) |->
            IF reverse
            THEN Mul(X[i][j], Mul(m(i), m(j)))
            ELSE Div(X[i][j], Mul(m(i), m(j)))]])

mean_trans(X, mean, std, reverse) ==
    Arr([i \in Rows(X) |-> [j \in Cols(X) |->
        IF reverse
        THEN Add(mean[j], Mul(X[i][j], std[j]))
        ELSE Div(Sub(X[i][j], mean[j]), std[j])]])

mean_var_trans(X, mean, std, reverse) ==
    Arr([i \in Rows(X) |-> [j \in Cols(X) |->
        IF reverse
        THEN Mul(X[i][j], Mul(std[j], std[j]))
        ELSE Div(X[i][j], Mul(std[j], std[j]))]])

mean_cov_trans(X, mean, std, reverse) ==
    Arr([i \in Rows(X) |-> [j \in Cols(X) |->
        IF reverse
        THEN Mul(X[i][j], Mul(std[i], std[j]))
        ELSE Div(X[i][j], Mul(std[i], std[j]))]])

\* trans( X, x1, x2, reverse=reverse ) for the transform named trans
Apply(trans, X, x1, x2, reverse) ==
    CASE trans = "box_trans"      -> box_trans(X, x1, x2, reverse)
      [] trans = "box_var_trans"  -> box_var_trans(X, x1, x2, reverse)
      [] trans = "box_cov_trans"  -> box_cov_trans(X, x1, x2, reverse)
      [] trans = "mean_trans"     -> mean_trans(X, x1, x2, reverse)
      [] trans = "mean_var_trans" -> mean_var_trans(X, x1, x2, reverse)
      [] trans = "mean_cov_trans" -> mean_cov_trans(X, x1, x2, reverse)

\* what a call returns: None, the float NaN, an array, or an exception
RetNone == [tag |-> "None", val |-> <<>>, warn |-> FALSE]
RetNaN == [tag |-> "nan", val |-> <<>>, warn |-> TRUE]
RetArray(X) == [tag |-> "array", val |-> X, warn |-> FALSE]
Raise(exception) == [tag |-> exception, val |-> <<>>, warn |-> FALSE]
Exceptions == {"AssertionError", "AttributeError", "IndexError",
               "LinAlgError", "TypeError"}
Raised(r) == r.tag \in Exceptions

_none_check(arglist) == \E k \in DOMAIN arglist : arglist[k] = None

\* transform with a _none_check of X alone: trans then fails on a None statistic
transform_unchecked(trans, X, x1, x2, reverse) ==
    IF _none_check(<<X>>)
    THEN RetNaN
    ELSE IF x1 = None \/ x2 = None
         THEN Raise("TypeError")
         ELSE RetArray(Apply(trans, Val(X), Val(x1), Val(x2), reverse))

transform(trans, X, x1, x2, reverse) ==
    IF _none_check(<<X, x1, x2>>)
    THEN RetNaN
    ELSE RetArray(Apply(trans, Val(X), Val(x1), Val(x2), reverse))

backtransform(trans, X, x1, x2) == transform(trans, X, x1, x2, TRUE)

-----------------------------------------------------------------------------
(* Surrogate model training data: properties of GPModel *)

Z == _Z
zmin == _zmin
zmax == _zmax
X == IF Z = None THEN None
     ELSE Some([i \in Rows(Val(Z)) |-> Slice(Val(Z)[i], 1, dim_x)])
xmin == IF zmin = None THEN None ELSE Some(Slice(Val(zmin), 1, dim_x))
xmax == IF zmax = None THEN None ELSE Some(Slice(Val(zmax), 1, dim_x))
P == IF Z = None THEN None
     ELSE Some([i \in Rows(Val(Z)) |-> Slice(Val(Z)[i], dim_x + 1, dim_x + dim_p)])
pmin == IF zmin = None THEN None
        ELSE Some(Slice(Val(zmin), dim_x + 1, dim_x + dim_p))
pmax == IF zmax = None THEN None
        ELSE Some(Slice(Val(zmax), dim_x + 1, dim_x + dim_p))
Y == _Y
ymean == _ymean
ystd == _ystd
dim_b == Len(binary_variables)
IsBinary(j) == \E k \in DOMAIN binary_variables : binary_variables[k] = j


-----------------------------------------------------------------------------
(* The named transforms of GPModel *)

transform_x(A) == transform("box_trans", A, xmin, xmax, FALSE)
backtransform_x(A) == backtransform("box_trans", A, xmin, xmax)
transform_p(A) == transform("box_trans", A, pmin, pmax, FALSE)
backtransform_p(A) == backtransform("box_trans", A, pmin, pmax)
transform_z(A) == transform("box_trans", A, zmin, zmax, FALSE)
backtransform_z(A) == backtransform("box_trans", A, zmin, zmax)
transform_y(A) == transform("mean_trans", A, ymean, ystd, FALSE)
backtransform_y(A) == backtransform("mean_trans", A, ymean, ystd)
transform_p_var(C) == transform("box_var_trans", C, pmin, pmax, FALSE)
backtransform_p_var(C) == backtransform("box_var_trans", C, pmin, pmax)
transform_p_cov(C) == transform("box_cov_trans", C, pmin, pmax, FALSE)
backtransform_p_cov(C) == backtransform("box_cov_trans", C, pmin, pmax)
transform_y_var(C) == transform("mean_var_trans", C, ymean, ystd, FALSE)
backtransform_y_var(C) == backtransform("mean_var_trans", C, ymean, ystd)
transform_y_cov(C) == transform("mean_cov_trans", C, ymean, ystd, FALSE)
backtransform_y_cov(C) == backtransform("mean_cov_trans", C, ymean, ystd)

TransformNames ==
    {"transform_x", "backtransform_x", "transform_p", "backtransform_p",
     "transform_z", "backtransform_z", "transform_y", "backtransform_y",
     "transform_p_var", "backtransform_p_var",
     "transform_p_cov", "backtransform_p_cov",
     "transform_y_var", "backtransform_y_var",
     "transform_y_cov", "backtransform_y_cov"}

\* the method called name, applied to A
CallTransform(name, A) ==
    CASE name = "transform_x"         -> transform_x(A)
      [] name = "backtransform_x"     -> backtransform_x(A)
      [] name = "transform_p"         -> transform_p(A)
      [] name = "backtransform_p"     -> backtransform_p(A)
      [] name = "transform_z"         -> transform_z(A)
      [] name = "backtransform_z"     -> backtransform_z(A)
      [] name = "transform_y"         -> transform_y(A)
      [] name = "backtransform_y"     -> backtransform_y(A)
      [] name = "transform_p_var"     -> transform_p_var(A)
      [] name = "backtransform_p_var" -> backtransform_p_var(A)
      [] name = "transform_p_cov"     -> transform_p_cov(A)
      [] name = "backtransform_p_cov" -> backtransform_p_cov(A)
      [] name = "transform_y_var"     -> transform_y_var(A)
      [] name = "backtransform_y_var" -> backtransform_y_var(A)
      [] name = "transform_y_cov"     -> transform_y_cov(A)
      [] name = "backtransform_y_cov" -> backtransform_y_cov(A)

-----------------------------------------------------------------------------
(* Z and Y setters and deleters *)

\* assert value.shape[1] == self.dim_x + self.dim_p
Z_assert(value) == value = None \/ NCols(Val(value)) = dim_x + dim_p

\* Z_setter without the loop over binary_variables
Z_setter_unpinned(value) ==
    IF value # None
    THEN LET mn == Some(np_min(Val(value)))
             mx == Some(np_max(Val(value)))
         IN  /\ _zmin' = mn
             /\ _zmax' = mx
             /\ _Z' = Some(transform("box_trans", value, mn, mx, FALSE).val)
    ELSE UNCHANGED <<_Z, _zmin, _zmax>>

\* self.transform_z(value) reads the _zmin and _zmax just assigned
Z_setter(value) ==
    IF value # None
    THEN LET mn == Some([j \in Cols(Val(value)) |->
                     IF IsBinary(j) THEN R(0) ELSE np_min(Val(value))[j]])
             mx == Some([j \in Cols(Val(value)) |->
                     IF IsBinary(j) THEN R(1) ELSE np_max(Val(value))[j]])
         IN  /\ _zmin' = mn
             /\ _zmax' = mx
             /\ _Z' = Some(transform("box_trans", value, mn, mx, FALSE).val)
    ELSE UNCHANGED <<_Z, _zmin, _zmax>>

Z_deleter ==
    /\ _Z' = None
    /\ _zmin' = None
    /\ _zmax' = None

\* assert value.shape[1] == self.num_outputs
Y_assert(value) == value = None \/ NCols(Val(value)) = num_outputs

\* Y_setter that drops Y and its statistics when it is given None
Y_setter_none_clears(value) ==
    IF value # None
    THEN LET mean == Some(np_mean(Val(value)))
             std == Some(np_std(Val(value)))
         IN  /\ _ymean' = mean
             /\ _ystd' = std
             /\ _Y' = Some(transform("mean_trans", value, mean, std, FALSE).val)
    ELSE /\ _Y' = None
         /\ _ymean' = None
         /\ _ystd' = None

\* self.transform_y(value) reads the _ymean and _ystd just assigned
Y_setter(value) ==
    IF value # None
    THEN LET mean == Some(np_mean(Val(value)))
             std == Some(np_std(Val(value)))
         IN  /\ _ymean' = mean
             /\ _ystd' = std
             /\ _Y' = Some(transform("mean_trans", value, mean, std, FALSE).val)
    ELSE UNCHANGED <<_Y, _ymean, _ystd>>

Y_deleter ==
    /\ _Y' = None
    /\ _ymean' = None
    /\ _ystd' = None

Called4(name, a, b, c, d) ==
    op' = [name |-> name, a |-> a, b |-> b, c |-> c, d |-> d]
Called(name, a, b) == Called4(name, a, b, None, None)

\* self.Z = Z ; self.Y = Y, stopping at the first failed assertion
set_training_data(Zv, Yv) ==
    IF ~Z_assert(Zv)
    THEN UNCHANGED <<_Z, _zmin, _zmax, _Y, _ymean, _ystd>>
    ELSE /\ Z_setter(Zv)
         /\ IF Y_assert(Yv) THEN Y_setter(Yv)
            ELSE UNCHANGED <<_Y, _ymean, _ystd>>
set_training_data_ok(Zv, Yv) == Z_assert(Zv) /\ Y_assert(Yv)

clear_training_data == Z_deleter /\ Y_deleter

-----------------------------------------------------------------------------
(* Calls on the training data and the transforms *)

TrainingVars == <<_Z, _zmin, _zmax, _Y, _ymean, _ystd>>
SurrogateVars == <<_kern_x, _kern_p, _hyp, _gps, _gprm>>
BaseVars == <<pmean, meas_noise_var, iA>>

\* model.Z = value
SetZ(value) ==
    /\ Called("Z.setter", value, None)
    /\ IF Z_assert(value)
       THEN Z_setter(value) /\ ret' = RetNone
       ELSE UNCHANGED <<_Z, _zmin, _zmax>> /\ ret' = Raise("AssertionError")
    /\ UNCHANGED <<_Y, _ymean, _ystd, SurrogateVars, BaseVars>>

\* del model.Z
DelZ ==
    /\ Called("Z.deleter", None, None)
    /\ Z_deleter
    /\ ret' = RetNone
    /\ UNCHANGED <<_Y, _ymean, _ystd, SurrogateVars, BaseVars>>

\* model.Y = value
SetY(value) ==
    /\ Called("Y.setter", value, None)
    /\ IF Y_assert(value)
       THEN Y_setter(value) /\ ret' = RetNone
       ELSE UNCHANGED <<_Y, _ymean, _ystd>> /\ ret' = Raise("AssertionError")
    /\ UNCHANGED <<_Z, _zmin, _zmax, SurrogateVars, BaseVars>>

\* del model.Y
DelY ==
    /\ Called("Y.deleter", None, None)
    /\ Y_deleter
    /\ ret' = RetNone
    /\ UNCHANGED <<_Z, _zmin, _zmax, SurrogateVars, BaseVars>>

\* model.set_training_data(Zv, Yv)
SetTrainingData(Zv, Yv) ==
    /\ Called("set_training_data", Zv, Yv)
    /\ set_training_data(Zv, Yv)
    /\ ret' = IF set_training_data_ok(Zv, Yv) THEN RetNone ELSE Raise("AssertionError")
    /\ UNCHANGED <<SurrogateVars, BaseVars>>

\* model.clear_training_data()
ClearTrainingData ==
    /\ Called("clear_training_data", None, None)
    /\ clear_training_data
    /\ ret' = RetNone
    /\ UNCHANGED <<SurrogateVars, BaseVars>>

\* model.transform_x(A), model.backtransform_y_cov(A), ...
Transform(name, A) ==
    /\ Called(name, A, None)
    /\ ret' = CallTransform(name, A)
    /\ UNCHANGED modelState

-----------------------------------------------------------------------------
(* utils.binary_dimensions (Z, binary_dimensions) -> R, I, J *)

RECURSIVE Pow2(_)
Pow2(k) == IF k = 0 THEN 1 ELSE 2 * Pow2(k - 1)

\* the groups: one per combination of the binary variables, observed or not
binary_R(bin) == 0..(Pow2(Len(bin)) - 1)
\* the group of each row
binary_J(A, bin) ==
    Vec([i \in Rows(A) |->
        SumSeq([k \in DOMAIN bin |-> Mul(R(Pow2(k - 1)), A[i][bin[k]])])])
\* Jr = (J == r) has a True entry
AnyRow(J, r) == \E i \in DOMAIN J : J[i] = R(r)

-----------------------------------------------------------------------------
(* Linear algebra *)

Zeros(n, m) ==
    Arr([i \in 1..n |-> [j \in 1..m |-> R(0)]])
MAdd(A, B) ==
    Arr([i \in Rows(A) |-> [j \in Cols(A) |-> Add(A[i][j], B[i][j])]])
Scale(c, A) ==
    Arr([i \in Rows(A) |-> [j \in Cols(A) |-> Mul(c, A[i][j])]])
\* np.matmul(A.T, B)
MatTMul(A, B) ==
    Arr([a \in Cols(A) |-> [b \in Cols(B) |->
        SumSeq([i \in Rows(A) |-> Mul(A[i][a], B[i][b])])]])
\* np.diag(1./v)
DiagRecip(v) ==
    Arr([i \in DOMAIN v |-> [j \in DOMAIN v |->
        IF i = j THEN Recip(v[i]) ELSE R(0)]])
AllFinite(A) == \A i \in Rows(A) : \A j \in Cols(A) : IsFinite(A[i][j])
Det2(A) == Sub(Mul(A[1][1], A[2][2]), Mul(A[1][2], A[2][1]))
\* the pivot LAPACK finds exactly zero
Singular(A) ==
    IF Len(A) = 1 THEN A[1][1] = R(0)
    ELSE AllFinite(A) /\ Det2(A) = R(0)
\* np.linalg.inv of a 1 x 1 or 2 x 2 array: None stands for LinAlgError.
\* A 2 x 2 array with an entry that is not finite inverts to NaN.
np_linalg_inv(A) ==
    IF Singular(A) THEN None
    ELSE IF Len(A) = 1 THEN Some(<< <<Recip(A[1][1])>> >>)
    ELSE IF ~AllFinite(A) THEN Some([i \in 1..2 |-> [j \in 1..2 |-> NaN]])
    ELSE LET d == Det2(A)
         IN  Some(<< <<Div(A[2][2], d), Div(Neg(A[1][2]), d)>>,
                     <<Div(Neg(A[2][1]), d), Div(A[1][1], d)>> >>)

-----------------------------------------------------------------------------
(* GPMarginal *)

\* GPMarginal(model, param_mean): model.gps may be None, and param_mean is
\* what transform_p returned, an array or the float NaN
GPMarginal_init(model_gps, param_mean) ==
    [gps |-> model_gps, param_mean |-> param_mean, Sigma |-> None]

Sigma == IF _gprm = None THEN None ELSE Val(_gprm).Sigma

\* gp.predictive_gradients(Z)[0][:, dim:, 0]: one row of D gradients for each
\* row of A; the oracle's mean is linear in the parameters
d_mu_d_p(gp, A) == Arr([i \in Rows(A) |-> gp.grad])

\* get_d_mu_d_p asks an oracle that is None for its gradients
NullQueried(gps_e, groups, J) ==
    \E r \in groups : AnyRow(J, r) /\ gps_e[r + 1] = None

\* dmu of the local get_d_mu_d_p, when no None oracle is asked: the rows of
\* each group r come from gps[r], and a row of no group stays zero
get_d_mu_d_p(gps_e, A, groups, J, D) ==
    Arr([i \in Rows(A) |->
        IF \E r \in groups : J[i] = R(r)
        THEN d_mu_d_p(Val(gps_e[J[i][1] + 1]), <<A[i]>>)[1]
        ELSE [j \in 1..D |-> R(0)]])

\* for e2 in range(e1+1,E)
RECURSIVE CrossLoop(_, _, _, _, _)
CrossLoop(acc, e1, e2, imeasvar, dmu) ==
    IF e2 > Len(dmu) THEN acc
    ELSE IF imeasvar[e1][e2] = R(0)
         THEN CrossLoop(acc, e1, e2 + 1, imeasvar, dmu)
         ELSE CrossLoop(
                MAdd(MAdd(acc,
                     Scale(imeasvar[e1][e2], MatTMul(dmu[e1], dmu[e2]))),
                     Scale(imeasvar[e2][e1], MatTMul(dmu[e2], dmu[e1]))),
                e1, e2 + 1, imeasvar, dmu)

\* OutputLoop adding a cross term for every pair of outputs, whatever ndim
RECURSIVE OutputLoop_cross(_, _, _, _, _)
OutputLoop_cross(acc, e1, imeasvar, ndim, dmu) ==
    IF e1 > Len(dmu) THEN acc
    ELSE LET own == MAdd(acc, Scale(imeasvar[e1][e1], MatTMul(dmu[e1], dmu[e1])))
             full == [i \in DOMAIN dmu |-> [j \in DOMAIN dmu |-> imeasvar[i][i]]]
         IN  OutputLoop_cross(CrossLoop(own, e1, e1 + 1, full, dmu),
                              e1 + 1, imeasvar, ndim, dmu)

\* for e1 in range(E)
RECURSIVE OutputLoop(_, _, _, _, _)
OutputLoop(acc, e1, imeasvar, ndim, dmu) ==
    IF e1 > Len(dmu) THEN acc
    ELSE LET own == MAdd(acc, Scale(imeasvar[e1][e1], MatTMul(dmu[e1], dmu[e1])))
         IN  IF ndim = 1
             THEN OutputLoop(own, e1 + 1, imeasvar, ndim, dmu)
             ELSE OutputLoop(CrossLoop(own, e1, e1 + 1, imeasvar, dmu),
                             e1 + 1, imeasvar, ndim, dmu)

\* a measurement noise: a float (ndim 0), a vector or a matrix
Noise(ndim, val) == [ndim |-> ndim, val |-> val]
\* a float becomes np.array([meas_noise_var] * E)
NoiseArray(noise, E) ==
    IF noise.ndim = 0
    THEN Noise(1, << [e \in 1..E |-> noise.val[1][1]] >>)
    ELSE noise

\* imeasvar; None stands for LinAlgError
InvertNoise(noise) ==
    IF noise.ndim = 1 THEN Some(DiagRecip(noise.val[1]))
    ELSE np_linalg_inv(noise.val)

Outcome(exception, sigma, acc) ==
    [ret |-> IF exception = "" THEN RetNone ELSE Raise(exception),
     Sigma |-> sigma, iA |-> acc]

\* compute_param_covar that drops the stored Sigma before it computes
compute_param_covar_reset(self, Xdata, mvar) ==
    IF self.gps = None \/ self.param_mean.tag # "array" \/ Xdata.tag # "array"
    THEN Outcome("TypeError", None, None)
    ELSE
    LET E == Len(Val(self.gps))
        D == NCols(self.param_mean.val)
        groups == binary_R(binary_variables)
        J == binary_J(Xdata.val, binary_variables)
        noise == NoiseArray(mvar, E)
        imeasvar == InvertNoise(noise)
        dmu == [e \in 1..E |->
                  get_d_mu_d_p(Val(self.gps)[e], Xdata.val, groups, J, D)]
        acc == OutputLoop(Zeros(D, D), 1, Val(imeasvar), noise.ndim, dmu)
    IN  IF imeasvar = None
        THEN Outcome("LinAlgError", None, None)
        ELSE IF \E e \in 1..E : NullQueried(Val(self.gps)[e], groups, J)
        THEN Outcome("AttributeError", None, None)
        ELSE IF np_linalg_inv(acc) = None
        THEN Outcome("LinAlgError", None, Some(acc))
        ELSE Outcome("", np_linalg_inv(acc), Some(acc))

\* self.compute_param_covar(Xdata, mvar): what it raises, the Sigma the engine
\* holds afterwards, and the iA it reached.  Xdata is an array or, passed on
\* from a transform, the float NaN.
compute_param_covar(self, Xdata, mvar) ==
    IF self.gps = None \/ self.param_mean.tag # "array" \/ Xdata.tag # "array"
    THEN Outcome("TypeError", self.Sigma, None)
    ELSE
    LET E == Len(Val(self.gps))
        D == NCols(self.param_mean.val)
        groups == binary_R(binary_variables)
        J == binary_J(Xdata.val, binary_variables)
        noise == NoiseArray(mvar, E)
        imeasvar == InvertNoise(noise)
        dmu == [e \in 1..E |->
                  get_d_mu_d_p(Val(self.gps)[e], Xdata.val, groups, J, D)]
        acc == OutputLoop(Zeros(D, D), 1, Val(imeasvar), noise.ndim, dmu)
    IN  IF imeasvar = None
        THEN Outcome("LinAlgError", self.Sigma, None)
        ELSE IF \E e \in 1..E : NullQueried(Val(self.gps)[e], groups, J)
        THEN Outcome("AttributeError", self.Sigma, None)
        ELSE IF np_linalg_inv(acc) = None
        THEN Outcome("LinAlgError", self.Sigma, Some(acc))
        ELSE Outcome("", np_linalg_inv(acc), Some(acc))

\* gprm.compute_param_covar(Xdata, noise), called on the engine
ComputeParamCovar(Xdata, noise) ==
    /\ _gprm # None
    /\ Called("compute_param_covar", Some(Xdata), Some(noise))
    /\ LET out == compute_param_covar(Val(_gprm), RetArray(Xdata), noise)
       IN  /\ _gprm' = Some([Val(_gprm) EXCEPT !.Sigma = out.Sigma])
           /\ iA' = out.iA
           /\ ret' = out.ret
    /\ UNCHANGED <<TrainingVars, _kern_x, _kern_p, _hyp, _gps,
                   pmean, meas_noise_var>>

-----------------------------------------------------------------------------
(* Inputs *)

Vals == 0..MaxVal
Bits == {0, 1}

\* two training rows [b, x, p]: [b1, 0, 0] and [b2, v, v]
ZValues == {<< <<R(b1), R(0), R(0)>>, <<R(b2), R(v), R(v)>> >> :
                b1 \in Bits, b2 \in Bits, v \in Vals}
\* a Z with dim_x + dim_p - 1 columns
ZBadShape == << <<R(0), R(1)>>, <<R(1), R(0)>> >>
\* two training rows of targets; the second has a constant first column
YValues == { << <<R(0), R(0)>>, <<R(2), R(1)>> >>,
             << <<R(1), R(0)>>, <<R(1), R(2)>> >> }
\* a Y with num_outputs + 1 columns
YBadShape == << <<R(0), R(1), R(0)>> >>

\* arrays a transform is asked about
TransformArgs(name) ==
    CASE name \in {"transform_x", "backtransform_x"} ->
            {<< <<R(b), R(x)>> >> : b \in Bits, x \in Vals}
      [] name \in {"transform_z", "backtransform_z"} ->
            {<< <<R(b), R(x), R(x)>> >> : b \in Bits, x \in Vals}
      [] name \in {"transform_y", "backtransform_y",
                   "transform_y_var", "backtransform_y_var"} ->
            {<< <<R(a), R(1)>> >> : a \in Vals}
      [] name \in {"transform_y_cov", "backtransform_y_cov"} ->
            {<< <<R(1), R(c)>>, <<R(c), R(1)>> >> : c \in Vals}
      [] OTHER ->
            {<< <<R(a)>> >> : a \in Vals}

-----------------------------------------------------------------------------
(* The model as constructed: GPModel(model_dict) *)

InitModel ==
    /\ _Z = None /\ _zmin = None /\ _zmax = None
    /\ _Y = None /\ _ymean = None /\ _ystd = None
    /\ _kern_x = None /\ _kern_p = None
    /\ _hyp = None
    /\ iA = None
    /\ op = [name |-> "__init__", a |-> None, b |-> None, c |-> None, d |-> None]
    /\ ret = RetNone

(* Training data and transforms only *)

InitTransform ==
    /\ InitModel
    /\ _gps = None /\ _gprm = None
    /\ pmean = None
    /\ meas_noise_var = None

NextTransform ==
    \/ \E v \in ZValues \cup {ZBadShape} : SetZ(Some(v))
    \/ SetZ(None)
    \/ DelZ
    \/ \E v \in YValues \cup {YBadShape} : SetY(Some(v))
    \/ SetY(None)
    \/ DelY
    \/ \E v \in ZValues, w \in YValues : SetTrainingData(Some(v), Some(w))
    \/ ClearTrainingData
    \/ \E name \in TransformNames :
         \E A \in TransformArgs(name) : Transform(name, Some(A))
    \/ \E name \in TransformNames : Transform(name, None)

SpecTransform == InitTransform /\ [][NextTransform]_vars

-----------------------------------------------------------------------------
(* The engine alone: GPMarginal(model, param_mean) over given oracles *)

Oracle(kx, kp, g) == [kernx |-> kx, kernp |-> kp, grad |-> <<R(g)>>]
Grads == 0..MaxGrad
\* oracles [e][r] of two outputs and two groups; a group without training
\* rows has no oracle for either output
OracleLists ==
    {<< <<Some(Oracle("RBF", "RBF", a)), Some(Oracle("RBF", "RBF", 1))>>,
        <<Some(Oracle("RBF", "RBF", c)), Some(Oracle("RBF", "RBF", 1))>> >> :
            a \in Grads, c \in Grads}
    \cup
    {<< <<Some(Oracle("RBF", "RBF", a)), None>>,
        <<Some(Oracle("RBF", "RBF", c)), None>> >> : a \in Grads, c \in Grads}

RECURSIVE SortedSeqs(_, _)
\* the non-decreasing sequences of n numbers of lo..1
SortedSeqs(n, lo) ==
    IF n = 0 THEN {<<>>}
    ELSE UNION {{<<b>> \o t : t \in SortedSeqs(n - 1, b)} : b \in lo..1}
\* design points [b, x] in transformed x-space
XdataValues ==
    UNION {{[i \in 1..n |-> <<R(s[i]), R(0)>>] : s \in SortedSeqs(n, 0)} :
              n \in 1..MaxRows}

\* a float, a vector of variances, or a covariance matrix
NoiseValues ==
    {Noise(0, << <<R(2)>> >>),
     Noise(1, << <<R(1), R(2)>> >>),
     Noise(2, << <<R(1), R(0)>>, <<R(0), R(2)>> >>),
     Noise(2, << <<R(2), R(1)>>, <<R(1), R(2)>> >>),
     Noise(2, << <<R(1), R(1)>>, <<R(1), R(1)>> >>)}

InitMarginal ==
    /\ InitModel
    /\ pmean = None
    /\ meas_noise_var = None
    /\ \E g \in OracleLists :
         /\ _gps = Some(g)
         /\ _gprm = Some(GPMarginal_init(Some(g), RetArray(<< <<R(0)>> >>)))

NextMarginal ==
    \E Xdata \in XdataValues : \E noise \in NoiseValues :
        ComputeParamCovar(Xdata, noise)

SpecMarginal == InitMarginal /\ [][NextMarginal]_vars

-----------------------------------------------------------------------------
(* Surrogate model kernels, hyperparameters and oracles *)

kern_x == _kern_x
\* return None if not hasattr(self,'_kern_p') else self._kern_x
kern_p == IF _kern_p = None THEN None ELSE _kern_x

\* self.kern_x = kern_x ; self.kern_p = kern_p
set_kernels(kx, kp) ==
    /\ _kern_x' = IF kx # None THEN kx ELSE _kern_x
    /\ _kern_p' = IF kp # None THEN kp ELSE _kern_p

\* the parameter array gp[:] of an oracle
gp_params(gp) == <<gp.kernx, gp.kernp>>

\* gp.predict_noiseless(z) of an oracle whose mean is linear in the parameters
predict_noiseless(gp, z) ==
    [mean |-> SumSeq([j \in 1..dim_p |->
                        Mul(gp.grad[j], z[Len(z) - dim_p + j])]),
     var |-> R(0)]

\* the gps list gp_surrogate builds from the stored Z and the kernel classes
surrogate_gps(Zs, kernx, kernp) ==
    LET J == binary_J(Zs, binary_variables)
        groups == binary_R(binary_variables)
    IN  [e \in 1..num_outputs |->
            [k \in 1..Cardinality(groups) |->
                IF AnyRow(J, k - 1)
                THEN Some(Oracle(kernx, kernp, 1))
                ELSE None]]

\* model.set_kernels(kx, kp)
SetKernels(kx, kp) ==
    /\ Called("set_kernels", kx, kp)
    /\ set_kernels(kx, kp)
    /\ ret' = RetNone
    /\ UNCHANGED <<TrainingVars, _hyp, _gps, _gprm, BaseVars>>

\* model.gp_surrogate(Zv, Yv, kx, kp)
GpSurrogate(Zv, Yv, kx, kp) ==
    /\ Called4("gp_surrogate", Zv, Yv, kx, kp)
    /\ set_training_data(Zv, Yv)
    /\ IF ~set_training_data_ok(Zv, Yv)
       THEN /\ ret' = Raise("AssertionError")
            /\ UNCHANGED <<_kern_x, _kern_p, _gps>>
       ELSE /\ set_kernels(kx, kp)
            /\ IF _kern_p' # None /\ _kern_x' = None
               THEN ret' = Raise("AttributeError") /\ UNCHANGED _gps
               ELSE IF _Z' = None
               THEN ret' = Raise("TypeError") /\ UNCHANGED _gps
               ELSE IF _Y' = None \/ kern_x' = None \/ kern_p' = None
               THEN ret' = Raise("AssertionError") /\ UNCHANGED _gps
               ELSE /\ _gps' = Some(surrogate_gps(Val(_Z'), Val(kern_x'), Val(kern_p')))
                    /\ ret' = RetNone
    /\ UNCHANGED <<_hyp, _gprm, BaseVars>>

\* model.gp_load_hyp()
GpLoadHyp ==
    /\ Called("gp_load_hyp", None, None)
    /\ ret' = IF _gps = None \/ _hyp = None THEN Raise("TypeError")
              ELSE IF \E e \in 1..num_outputs :
                        \E k \in 1..Len(Val(_gps)[e]) :
                            Val(_gps)[e][k] # None /\ Val(_hyp)[e][k] = None
              THEN Raise("TypeError")
              ELSE RetNone
    /\ UNCHANGED modelState

\* model.gp_optimise()
GpOptimise ==
    /\ Called("gp_optimise", None, None)
    /\ IF _gps = None
       THEN ret' = Raise("TypeError") /\ UNCHANGED _hyp
       ELSE /\ _hyp' = Some([e \in 1..num_outputs |->
                        [k \in 1..Len(Val(_gps)[e]) |->
                            IF Val(_gps)[e][k] = None THEN None
                            ELSE Some(gp_params(Val(Val(_gps)[e][k])))]])
            /\ ret' = RetNone
    /\ UNCHANGED <<TrainingVars, _kern_x, _kern_p, _gps, _gprm, BaseVars>>

\* M, S after backtransform_y and, S.ndim being 2, backtransform_y_var
backtransform_prediction(M, S) ==
    LET Mb == backtransform_y(Some(M))
        Sb == backtransform_y_var(Some(S))
    IN  [tag |-> "tuple", val |-> <<Mb.val, Sb.val>>, warn |-> Mb.warn \/ Sb.warn]

\* model.predict(xnew), p being self.pmean
Predict(xnew) ==
    /\ Called("predict", Some(xnew), None)
    /\ LET znew == transform_z(Some([i \in Rows(xnew) |-> xnew[i] \o Val(pmean)]))
           J == binary_J(znew.val, binary_variables)
           gp(i, e) == Val(_gps)[e][J[i][1] + 1]
           z(i) == Slice(znew.val[i], dim_b + 1, dim_x + dim_p)
       IN  ret' = IF znew.tag # "array" \/ _gps = None THEN Raise("TypeError")
                  ELSE IF \E i \in Rows(xnew) : \E e \in 1..num_outputs : gp(i, e) = None
                  THEN Raise("AttributeError")
                  ELSE backtransform_prediction(
                         [i \in Rows(xnew) |-> [e \in 1..num_outputs |->
                             predict_noiseless(Val(gp(i, e)), z(i)).mean]],
                         [i \in Rows(xnew) |-> [e \in 1..num_outputs |->
                             predict_noiseless(Val(gp(i, e)), z(i)).var]])
    /\ UNCHANGED modelState

\* model.clear_surrogate_model()
ClearSurrogateModel ==
    /\ Called("clear_surrogate_model", None, None)
    /\ _gps' = None
    /\ _hyp' = None
    /\ clear_training_data
    /\ _gprm' = None
    /\ ret' = RetNone
    /\ UNCHANGED <<_kern_x, _kern_p, BaseVars>>

-----------------------------------------------------------------------------
(* Marginal surrogate predictions *)

\* model.pmean = p
SetPmean(p) ==
    /\ Called("pmean.setter", Some(p), None)
    /\ pmean' = Some(p)
    /\ ret' = RetNone
    /\ UNCHANGED <<TrainingVars, SurrogateVars, meas_noise_var, iA>>

\* transform_y_var of a 1-D meas_noise_var, transform_y_cov of a 2-D one; a
\* float NaN when the y statistics are unset
transformed_meas_noise_var ==
    LET mvar == Val(meas_noise_var)
        t == IF mvar.ndim = 1 THEN transform_y_var(Some(mvar.val))
             ELSE transform_y_cov(Some(mvar.val))
    IN  IF t.tag = "array" THEN Noise(mvar.ndim, t.val)
        ELSE Noise(0, << <<NaN>> >>)

\* self.gprm = method(self, self.transform_p(self.pmean))
MarginalInit ==
    /\ Called("marginal_init", None, None)
    /\ LET param_mean == transform_p(Some(<<Val(pmean)>>))
       IN  /\ _gprm' = Some(GPMarginal_init(_gps, param_mean))
           /\ ret' = [RetNone EXCEPT !.warn = param_mean.warn]
    /\ UNCHANGED <<TrainingVars, _kern_x, _kern_p, _hyp, _gps, BaseVars>>

\* model.marginal_compute_covar(Xdata)
MarginalComputeCovar(Xdata) ==
    /\ Called("marginal_compute_covar", Some(Xdata), None)
    /\ IF _gprm = None
       THEN ret' = RetNone /\ UNCHANGED <<_gprm, iA>>
       ELSE LET Xt == transform_x(Some(Xdata))
                out == compute_param_covar(Val(_gprm), Xt, transformed_meas_noise_var)
            IN  /\ _gprm' = Some([Val(_gprm) EXCEPT !.Sigma = out.Sigma])
                /\ iA' = out.iA
                /\ ret' = [out.ret EXCEPT !.warn = Xt.warn \/ _ystd = None]
    /\ UNCHANGED <<TrainingVars, _kern_x, _kern_p, _hyp, _gps, pmean, meas_noise_var>>

\* self.gprm(X): the marginal mean and variance at the rows of X, the variance
\* being the point variance plus d_mu_d_p Sigma d_mu_d_p^T; None while no
\* Sigma has been computed
GPMarginal_call(self, Xt) ==
    IF self.Sigma = None THEN RetNone
    ELSE IF Xt.tag # "array" \/ self.gps = None \/ self.param_mean.tag # "array"
    THEN Raise("TypeError")
    ELSE
    LET J == binary_J(Xt.val, binary_variables)
        gp(i, e) == Val(self.gps)[e][J[i][1] + 1]
        z(i) == Slice(Xt.val[i], dim_b + 1, dim_x) \o self.param_mean.val[1]
        dmu(i, e) == d_mu_d_p(Val(gp(i, e)), <<Xt.val[i]>>)
        spread(i, e) ==
            SumSeq([j \in 1..dim_p |->
                SumSeq([k \in 1..dim_p |->
                    Mul(Mul(dmu(i, e)[1][j], Val(self.Sigma)[j][k]), dmu(i, e)[1][k])])])
    IN  IF \E i \in Rows(Xt.val) : \E e \in 1..num_outputs : gp(i, e) = None
        THEN Raise("AttributeError")
        ELSE [tag |-> "tuple",
              val |-> << [i \in Rows(Xt.val) |-> [e \in 1..num_outputs |->
                             predict_noiseless(Val(gp(i, e)), z(i)).mean]],
                         [i \in Rows(Xt.val) |-> [e \in 1..num_outputs |->
                             Add(predict_noiseless(Val(gp(i, e)), z(i)).var,
                                 spread(i, e))]] >>,
              warn |-> FALSE]

\* model.marginal_predict(xnew); M, S = None is a TypeError
MarginalPredict(xnew) ==
    /\ Called("marginal_predict", Some(xnew), None)
    /\ IF _gprm = None
       THEN ret' = RetNone
       ELSE LET Xt == transform_x(Some(xnew))
                MS == GPMarginal_call(Val(_gprm), Xt)
            IN  ret' = IF MS.tag = "None" THEN Raise("TypeError")
                       ELSE IF Raised(MS) THEN MS
                       ELSE backtransform_prediction(MS.val[1], MS.val[2])
    /\ UNCHANGED modelState

-----------------------------------------------------------------------------
(* The whole model: training, surrogate, marginal predictions *)

\* training rows [b, 0, 0] and [1 - b, 1, 1], one in each binary group
ZTrain == {<< <<R(b), R(0), R(0)>>, <<R(1 - b), R(1), R(1)>> >> : b \in Bits}
YTrain == << <<R(0), R(0)>>, <<R(2), R(1)>> >>
KernelArgs == {<<None, None>>, <<Some("RBF"), Some("Matern52")>>}
PmeanValues == {<<R(0)>>, <<R(1)>>}
\* a design point of binary group 1
XNew == << <<R(1), R(1)>> >>
MeasNoise == {Noise(1, << <<R(1), R(2)>> >>)}
\* the all-ones array each transform is asked about
OnesArgs(name) ==
    {A \in TransformArgs(name) : \A i \in Rows(A) : \A j \in Cols(A) : A[i][j] = R(1)}

Init ==
    /\ InitModel
    /\ _gps = None /\ _gprm = None
    /\ pmean \in {Some(p) : p \in PmeanValues}
    /\ meas_noise_var \in {Some(v) : v \in MeasNoise}

Next ==
    \/ \E v \in ZTrain : SetZ(Some(v))
    \/ SetZ(None)
    \/ SetY(Some(YTrain))
    \/ SetY(None)
    \/ \E v \in ZTrain : SetTrainingData(Some(v), Some(YTrain))
    \/ SetTrainingData(None, None)
    \/ ClearTrainingData
    \/ \E name \in TransformNames :
         \E A \in OnesArgs(name) : Transform(name, Some(A))
    \/ \E k \in KernelArgs : SetKernels(k[1], k[2])
    \/ \E v \in ZTrain, k \in KernelArgs \ {<<None, None>>} :
         GpSurrogate(Some(v), Some(YTrain), k[1], k[2])
    \/ GpSurrogate(None, None, None, None)
    \/ GpLoadHyp
    \/ GpOptimise
    \/ Predict(XNew)
    \/ ClearSurrogateModel
    \/ \E p \in PmeanValues : SetPmean(p)
    \/ MarginalInit
    \/ MarginalComputeCovar(XNew)
    \/ MarginalPredict(XNew)

Spec == Init /\ [][Next]_vars

-----------------------------------------------------------------------------
(* Properties of the transforms *)

BoxNames == TransformNames \ {"transform_y", "backtransform_y",
                "transform_y_var", "backtransform_y_var",
                "transform_y_cov", "backtransform_y_cov"}
\* the statistics the transform called name reads are not all there
StatsUnset(name) ==
    IF name \in BoxNames THEN zmin = None \/ zmax = None
    ELSE ymean = None \/ ystd = None

\* C6: a transform queried while the statistics it reads are unset returns
\* the float NaN with a warning, raises nothing and leaves the model as it was
C6_UnsetStatsGiveNaN ==
    [][(op'.name \in TransformNames /\ StatsUnset(op'.name))
         => (ret' = RetNaN /\ modelState' = modelState)]_vars

C6_Witness ==
    /\ op.name = "backtransform_p_cov"
    /\ op.a # None
    /\ zmin = None
    /\ Y # None
    /\ ret = RetNaN

AssignsZ == op.name \in {"Z.setter", "set_training_data", "gp_surrogate"}
                /\ op.a # None /\ Z_assert(op.a)

\* C7: once a Z of dim_x + dim_p columns is assigned, zmin is 0 and zmax is 1
\* in every binary column whatever the column holds, the stored Z has the
\* input's binary columns, and backtransform_z of the stored Z gives them back
C7_BinaryColumnsPinned ==
    AssignsZ =>
        /\ Z # None /\ zmin # None /\ zmax # None
        /\ \A j \in 1..(dim_x + dim_p) : IsBinary(j) =>
              /\ Val(zmin)[j] = R(0)
              /\ Val(zmax)[j] = R(1)
              /\ Column(Val(Z), j) = Column(Val(op.a), j)
              /\ Column(backtransform_z(Z).val, j) = Column(Val(op.a), j)

\* a binary column holding the single value 1
C7_Witness ==
    /\ AssignsZ
    /\ Column(Val(op.a), 1) = <<R(1), R(1)>>
    /\ Column(Val(Z), 1) = <<R(1), R(1)>>
    /\ Val(zmin)[1] = R(0)

\* forward(backward(forward(A))) = forward(A), NaN comparing equal to NaN
RoundTrip(forward, backward, A) ==
    LET once == CallTransform(forward, Some(A))
        back == CallTransform(backward, Some(once.val))
        again == CallTransform(forward, Some(back.val))
    IN  again.val = once.val

RoundTripPairs ==
    {<<"transform_z", "backtransform_z">>, <<"transform_y", "backtransform_y">>,
     <<"transform_p_var", "backtransform_p_var">>,
     <<"transform_p_cov", "backtransform_p_cov">>,
     <<"transform_y_var", "backtransform_y_var">>,
     <<"transform_y_cov", "backtransform_y_cov">>}

\* C9: with the statistics of any training data set, transform after
\* backtransform after transform equals transform, for z, y and the variance
\* and covariance transforms
C9_RoundTrip ==
    \A pr \in RoundTripPairs :
        ~StatsUnset(pr[1]) =>
            \A A \in TransformArgs(pr[1]) : RoundTrip(pr[1], pr[2], A)

-----------------------------------------------------------------------------
(* Properties of compute_param_covar *)

EngineCall == op.name = "compute_param_covar"
\* the arguments and the oracles of the call just made
CallXdata == Val(op.a)
CallNoise == NoiseArray(Val(op.b), num_outputs)
CallGroups == binary_R(binary_variables)
CallJ == binary_J(CallXdata, binary_variables)
CallGps == Val(Val(_gprm).gps)
NoiseSingular(noise) == InvertNoise(NoiseArray(noise, num_outputs)) = None

\* C1: a compute_param_covar call that meets a measurement noise covariance or
\* an accumulated iA that cannot be inverted ends in LinAlgError, and every
\* failed call leaves the engine's Sigma exactly as it was before the call,
\* the stored one or None.
C1_FailedComputeKeepsSigma ==
    [][op'.name = "compute_param_covar" =>
         /\ (NoiseSingular(Val(op'.b)) \/ (iA' # None /\ Singular(Val(iA'))))
               => ret'.tag = "LinAlgError"
         /\ Raised(ret') => Sigma' = Sigma]_vars

\* a call fails on a singular iA while a Sigma from an earlier call is stored
C1_Witness ==
    /\ EngineCall
    /\ ret.tag = "LinAlgError"
    /\ iA # None /\ Singular(Val(iA))
    /\ Sigma # None

\* the rows of Xdata that fall in a group whose oracle is None
NullRows(gps_e) ==
    {i \in DOMAIN CallJ : \E r \in CallGroups : CallJ[i] = R(r) /\ gps_e[r + 1] = None}

\* d mu / d p of output e with the rows of None oracles left out
SkippingDmu(gps_e) ==
    [i \in Rows(CallXdata) |->
        IF i \in NullRows(gps_e) THEN [j \in 1..dim_p |-> R(0)]
        ELSE Val(gps_e[CallJ[i][1] + 1]).grad]

\* C3: compute_param_covar never asks an oracle that is None: the rows of
\* Xdata in its group are skipped and add nothing to iA, and the call does not
\* fail because of them.
C3_NullOracleSkipped ==
    (EngineCall /\ ~NoiseSingular(Val(op.b))) =>
        /\ ret.tag # "AttributeError"
        /\ iA = Some(OutputLoop(Zeros(dim_p, dim_p), 1,
                                Val(InvertNoise(CallNoise)), CallNoise.ndim,
                                [e \in 1..num_outputs |-> SkippingDmu(CallGps[e])]))

\* sum over the outputs e..E of (1 / var_e) * dmu_e^T dmu_e
RECURSIVE OwnTerms(_, _, _)
OwnTerms(e, variances, dmu) ==
    IF e > Len(dmu) THEN Zeros(dim_p, dim_p)
    ELSE MAdd(Scale(Recip(variances[e]), MatTMul(dmu[e], dmu[e])),
              OwnTerms(e + 1, variances, dmu))

\* C8: with a float or a 1-D meas_noise_var the iA that compute_param_covar
\* accumulates is the sum over the outputs e of (1 / var_e) * dmu_e^T dmu_e,
\* with no cross-output term.
C8_IndependentNoiseNoCrossTerms ==
    (EngineCall /\ Val(op.b).ndim \in {0, 1} /\ iA # None) =>
        Val(iA) = OwnTerms(1, CallNoise.val[1],
                     [e \in 1..num_outputs |->
                        get_d_mu_d_p(CallGps[e], CallXdata, CallGroups, CallJ, dim_p)])

\* a 1-D noise and two outputs that both respond to the parameter
C8_Witness ==
    /\ EngineCall /\ Val(op.b).ndim = 1 /\ iA # None /\ ret = RetNone
    /\ \A e \in 1..num_outputs :
          MatTMul(get_d_mu_d_p(CallGps[e], CallXdata, CallGroups, CallJ, dim_p),
                  get_d_mu_d_p(CallGps[3 - e], CallXdata, CallGroups, CallJ, dim_p))
             # Zeros(dim_p, dim_p)

-----------------------------------------------------------------------------
(* Properties of the whole model *)

\* calls that assign a new non-None Z, a new non-None Y, or clear them
AssignsNewZ(call) ==
    call.name \in {"Z.setter", "set_training_data", "gp_surrogate"} /\ call.a # None
AssignsNewY(call) ==
    \/ call.name = "Y.setter" /\ call.a # None
    \/ call.name \in {"set_training_data", "gp_surrogate"} /\ call.b # None
ClearsTraining(call) ==
    call.name \in {"Z.deleter", "Y.deleter", "clear_training_data",
                   "clear_surrogate_model"}

\* C5: zmin, zmax, ymean and ystd are fixed when training data is set: a call
\* that neither assigns new non-None training data nor clears it leaves them
\* as they were, and while Z (Y) is present zmin and zmax (ymean and ystd)
\* are present.
C5_StatisticsFixed ==
    [][/\ (~AssignsNewZ(op') /\ ~ClearsTraining(op'))
             => <<_zmin, _zmax>>' = <<_zmin, _zmax>>
       /\ (~AssignsNewY(op') /\ ~ClearsTraining(op'))
             => <<_ymean, _ystd>>' = <<_ymean, _ystd>>
       /\ Z' # None => (zmin' # None /\ zmax' # None)
       /\ Y' # None => (ymean' # None /\ ystd' # None)]_vars

\* gp_surrogate(None, None) has built oracles from the stored training data
C5_Witness ==
    /\ op.name = "gp_surrogate" /\ op.a = None /\ op.b = None
    /\ ret = RetNone
    /\ Z # None /\ zmin # None /\ ymean # None

\* C2: a call that changes the training data (Z or Y, through their setters,
\* set_training_data or gp_surrogate) or the parameter mean leaves no Sigma
\* behind for marginal prediction.
C2_ChangeInvalidatesSigma ==
    [][(/\ op'.name \in {"Z.setter", "Y.setter", "set_training_data",
                         "gp_surrogate", "pmean.setter"}
        /\ <<_Z, _Y, pmean>>' # <<_Z, _Y, pmean>>)
          => Sigma' = None]_vars

\* C4: marginal_predict returns None while no Sigma has been computed, with a
\* marginal engine or without one.
C4_NoSigmaGivesNone ==
    (op.name = "marginal_predict" /\ Sigma = None) => ret = RetNone

\* C10: after set_kernels with two kernel classes the accessors return the
\* class each was given, and the oracles gp_surrogate builds take kernx from
\* the kern_x class and kernp from the kern_p class.
C10_KernelAccessors ==
    /\ (op.name = "set_kernels" /\ op.a # None /\ op.b # None)
          => (kern_x = op.a /\ kern_p = op.b)
    /\ (op.name = "gp_surrogate" /\ op.c # None /\ op.d # None /\ ret = RetNone)
          => \A e \in 1..num_outputs : \A k \in 1..Len(Val(_gps)[e]) :
                Val(_gps)[e][k] # None =>
                    /\ Val(Val(_gps)[e][k]).kernx = Val(op.c)
                    /\ Val(Val(_gps)[e][k]).kernp = Val(op.d)
====
